---- MODULE Spec2Model ----
(***************************************************************************)
(* Model of package task (src/pkg/task/task.go): running one task on ECS   *)
(* and waiting for its completion.                                         *)
(*                                                                         *)
(*   Spec      one run as the package documents it: NewTask, a context,    *)
(*             RunTask, WaitTask, for a few launch configurations and all  *)
(*             answers of the ECS client.                                  *)
(*   FairSpec  Spec with the fairness that the Go scheduler, the clock and *)
(*             a context-bound client call provide (for termination).      *)
(*   SpecRun   NewTask and RunTask alone, for every launch configuration.  *)
(***************************************************************************)
EXTENDS Integers, Sequences, FiniteSets, TLC

(***************************************************************************)
(* Bounds of the model.                                                    *)
(***************************************************************************)
\* containers of one described task (task.Containers)
MaxContainers == 2
\* DescribeTasks calls issued by one WaitTask invocation
MaxPolls == 3

(***************************************************************************)
(* Values.                                                                 *)
(***************************************************************************)
\* container names; the Task under study has Container = "app"
ContainerNames == {"app", "sidecar"}
\* Task.Timeout values: zero, and the 300 seconds of the package doc
TimeoutValues == {0, 300}
\* exit codes a container can report (int32); 0 is success
ExitCodes == {0, 1, 7}
\* *int32: <<>> is the nil pointer, <<n>> points to n
ExitCodePtrs == {<<>>} \cup {<<n>> : n \in ExitCodes}
\* Task.LastStatus values of the service
TaskStatuses == {"PENDING", "RUNNING", "STOPPED"}

\* failure entries and tasks in one RunTaskOutput
MaxFailures == 2
MaxRunTasks == 2
\* ecstypes.Failure.Reason (*string): <<>> is the nil pointer
Reasons == {<<>>, <<"RESOURCE:MEMORY">>, <<"MISSING">>}
\* the ARN of the i-th task of a RunTaskOutput
TaskArn(i) == i

SeqsUpTo(S, n) == UNION {[1..k -> S] : k \in 0..n}

\* ecstypes.Container, the fields the code reads
Containers == [Name : ContainerNames, ExitCode : ExitCodePtrs]
\* ecstypes.Task, the fields the code reads
Tasks == [LastStatus : TaskStatuses, Containers : SeqsUpTo(Containers, MaxContainers)]
\* task ARNs named by one DescribeTasksInput: Tasks: []string{taskArn}
DescribedTasks == 1
\* ecs.DescribeTasksOutput: the tasks found among the ARNs asked for
DescribeTasksOutputs == [Tasks : SeqsUpTo(Tasks, DescribedTasks)]

\* ecstypes.Failure
Failures == [Reason : Reasons]
\* ecs.RunTaskOutput
RunTaskOutputs ==
    [Failures : SeqsUpTo(Failures, MaxFailures),
     Tasks : {[i \in 1..k |-> [TaskArn |-> TaskArn(i)]] : k \in 0..MaxRunTasks}]

(***************************************************************************)
(* Go error values.  Two errors are == in Go when they are the same value; *)
(* here, when they are the same record.                                    *)
(***************************************************************************)
GoError(msg, code) == [msg |-> msg, code |-> code]
Nil == GoError("nil", 0)
\* context.DeadlineExceeded and context.Canceled, the values of ctx.Err()
DeadlineExceeded == GoError("context deadline exceeded", 0)
Canceled == GoError("context canceled", 0)
\* errors.New("process timeout")
ProcessTimeout == GoError("process timeout", 0)
\* errors.Errorf("exit code: %v", code)
ExitCodeError(code) == GoError("exit code", code)
\* an error of the service or the transport, unrelated to the context
ServiceError(op) == GoError("operation error ECS: " \o op \o ", AccessDeniedException", 0)
\* the client's error for a request its context ended: it wraps ctx.Err()
WrappedCtxError(op, ctxErr) == GoError("operation error ECS: " \o op \o ", " \o ctxErr.msg, 0)
\* WaitTask has not returned yet
Pending == GoError("(not returned)", 0)

VARIABLES
    loopVarPerIteration, \* the build: does `for _, c := range` make a new c per iteration
    pc,                  \* where the run is
    args,                \* the arguments NewTask was called with (<<>>: not yet)
    t,                   \* *Task of NewTask (<<>>: nil)
    newErr,              \* error of NewTask
    ctx,                 \* the context: has it a deadline, and ctx.Err()
    calls,               \* calls issued to the ECS client, per operation
    params,              \* RunTask: the *ecs.RunTaskInput sent (<<>>: none yet)
    runResp,             \* RunTask: resp of awsECS.RunTask (<<>>: nil)
    run,                 \* RunTask: what it returned, (*ecstypes.Task, error)
    resp,                \* waitExitTasks: resp of this iteration (<<>>: nil)
    err,                 \* waitExitTasks: err of this iteration
    ret                  \* WaitTask: what it returned

vars == <<loopVarPerIteration, pc, args, t, newErr, ctx, calls, params, runResp, run,
          resp, err, ret>>


(***************************************************************************)
(* The ECS client is the SDK client NewTask builds (ecs.NewFromConfig).    *)
(* A call can fail for the service's reasons at any time; once the context *)
(* has ended it can fail with an error that wraps ctx.Err().               *)
(***************************************************************************)
ClientErrors(op, c) ==
    {ServiceError(op)} \cup
    (IF c.err # Nil THEN {WrappedCtxError(op, c.err)} ELSE {})

(***************************************************************************)
(* checkTaskStopped                                                        *)
(***************************************************************************)
\* mutant: every status but RUNNING counts as stopped
checkTaskStopped_NotRunning(task) == task.LastStatus # "RUNNING"

checkTaskStopped(task) == task.LastStatus = "STOPPED"

(***************************************************************************)
(* checkTaskSucceeded.  The loop stores &c for every container whose name  *)
(* is t.Container.  With one c per iteration the pointer names the last    *)
(* matching container; with one c for the whole loop it names c, which     *)
(* holds the last container of the list when the loop ends.                *)
(* <<>> is the nil pointer.                                                *)
(***************************************************************************)
MaxOf(S) == CHOOSE x \in S : \A y \in S : y <= x
MinOf(S) == CHOOSE x \in S : \A y \in S : x <= y

targetContainer(task) ==
    LET cs == task.Containers
        matches == {i \in 1..Len(cs) : cs[i].Name = t[1].Container}
    IN  IF matches = {} THEN <<>>
        ELSE IF loopVarPerIteration THEN <<cs[MaxOf(matches)]>>
        ELSE <<cs[Len(cs)]>>

checkTaskSucceeded(task) ==
    LET tc == targetContainer(task)
    IN  IF tc = <<>>
        THEN [code |-> 1, result |-> FALSE,
              err |-> GoError("can not find target container", 0)]
        ELSE IF tc[1].ExitCode = <<>>
        THEN [code |-> 1, result |-> FALSE,
              err |-> GoError("can not read exit code", 0)]
        ELSE IF tc[1].ExitCode[1] # 0
        THEN [code |-> tc[1].ExitCode[1], result |-> FALSE, err |-> Nil]
        ELSE [code |-> 0, result |-> TRUE, err |-> Nil]

(***************************************************************************)
(* waitExitTasks after a successful DescribeTasks: `continue retry`, or    *)
(* the error (or nil) it returns.                                          *)
(***************************************************************************)
EvalTasks(tasks) ==
    LET idx == 1..Len(tasks)
        \* second loop: the tasks at which it does not go on to the next one
        stop == {i \in idx : checkTaskSucceeded(tasks[i]).err # Nil
                             \/ ~checkTaskSucceeded(tasks[i]).result}
    IN  IF \E i \in idx : ~checkTaskStopped(tasks[i])
        THEN [retry |-> TRUE, err |-> Nil]
        ELSE IF stop = {}
        THEN [retry |-> FALSE, err |-> Nil]
        ELSE IF checkTaskSucceeded(tasks[MinOf(stop)]).err # Nil
        THEN [retry |-> TRUE, err |-> Nil]
        ELSE [retry |-> FALSE,
              err |-> ExitCodeError(checkTaskSucceeded(tasks[MinOf(stop)]).code)]

(***************************************************************************)
(* WaitTask: what it makes of waitExitTasks' error.                        *)
(***************************************************************************)
\* mutant: every error of the context becomes "process timeout"
WaitTaskError_AnyCtxError(e) ==
    IF e \in {DeadlineExceeded, Canceled} THEN ProcessTimeout ELSE e

WaitTaskError(e) == IF e = DeadlineExceeded THEN ProcessTimeout ELSE e


(***************************************************************************)
(* NewTask.                                                                *)
(***************************************************************************)
\* command lines: empty, two that shellwords splits, one it rejects
Commands == {"", "echo hi", "sh -c 'echo hi'", "echo 'hi"}
\* a comma-separated list is given by its fields, as strings.Split cuts it:
\* "", "," and "id-1,,id-2"
IDLists == {<<"">>, <<"", "">>, <<"id-1", "", "id-2">>}

\* the arguments of NewTask that the Task keeps or checks
\* the argument sets below, before the choice of AllArgs
ArgValues ==
    [cluster : {"", "cluster-name"}, container : {"", "app", "sidecar"},
     taskDefinitionName : {"", "job"}, command : Commands, fargate : BOOLEAN,
     subnetIDs : IDLists, securityGroupIDs : {<<"">>, <<"id-1">>},
     platformVersion : {"", "1.4.0"}, timeout : TimeoutValues,
     taskSizeCpu : {"", "256"}, taskSizeMemory : {"", "512"}]

\* the groups of optional arguments RunTask reads independently of each other
SizeArgsSet(a) == a.taskSizeCpu # "" \/ a.taskSizeMemory # ""
NetworkArgsSet(a) ==
    \/ a.fargate \/ a.platformVersion # ""
    \/ a.subnetIDs # <<"">> \/ a.securityGroupIDs # <<"">>
OverrideArgsSet(a) == a.container = "sidecar" \/ a.command = "sh -c 'echo hi'"

\* NewTask's arguments: every combination within a group, one group at a time
AllArgs ==
    {a \in ArgValues :
        /\ ~(SizeArgsSet(a) /\ NetworkArgsSet(a))
        /\ ~(SizeArgsSet(a) /\ OverrideArgsSet(a))
        /\ ~(NetworkArgsSet(a) /\ OverrideArgsSet(a))}

LifeArgs ==
    {a \in AllArgs :
        /\ a.cluster # "" /\ a.container = "app" /\ a.command = "echo hi"
        /\ ~a.fargate /\ a.subnetIDs = <<"">> /\ a.securityGroupIDs = <<"">>
        /\ a.platformVersion = "" /\ a.taskSizeCpu = "" /\ a.taskSizeMemory = ""}

\* shellwords.Parser.Parse: the tokens, or <<>> with an error
Parse(command) ==
    IF command = "echo hi" THEN [commands |-> <<"echo", "hi">>, err |-> Nil]
    ELSE IF command = "sh -c 'echo hi'"
    THEN [commands |-> <<"sh", "-c", "echo hi">>, err |-> Nil]
    ELSE IF command = "" THEN [commands |-> <<>>, err |-> Nil]
    ELSE [commands |-> <<>>, err |-> GoError("invalid command line string", 0)]

\* `for _, s := range strings.Split(ids, ",") { if len(s) > 0 { append } }`
NonEmptyFields(fields) == SelectSeq(fields, LAMBDA f : f # "")

\* mutant: the command is not checked
RequiredArgs_NoCommandCheck(a) ==
    IF a.cluster = "" THEN GoError("Cluster name is required", 0)
    ELSE IF a.container = "" THEN GoError("Container name is required", 0)
    ELSE IF a.taskDefinitionName = "" THEN GoError("Task definition is required", 0)
    ELSE Nil

\* NewTask's four checks of its arguments: the error of the first that fails
RequiredArgs(a) ==
    IF a.cluster = "" THEN GoError("Cluster name is required", 0)
    ELSE IF a.container = "" THEN GoError("Container name is required", 0)
    ELSE IF a.taskDefinitionName = "" THEN GoError("Task definition is required", 0)
    ELSE IF a.command = "" THEN GoError("Command is required", 0)
    ELSE Nil

\* NewTask's results (*Task, error), given whether newConfig succeeded
NewTaskResult(a, cfgOk) ==
    IF RequiredArgs(a) # Nil
    THEN [t |-> <<>>, err |-> RequiredArgs(a)]
    ELSE IF ~cfgOk
    THEN [t |-> <<>>, err |-> GoError("Failed to create AWS Session", 0)]
    ELSE IF Parse(a.command).err # Nil
    THEN [t |-> <<>>, err |-> GoError("Parse error", 0)]
    ELSE [t |-> << [Cluster |-> a.cluster,
                    Container |-> a.container,
                    TaskDefinitionName |-> a.taskDefinitionName,
                    Command |-> Parse(a.command).commands,
                    Timeout |-> a.timeout,
                    LaunchType |-> IF a.fargate THEN "FARGATE" ELSE "EC2",
                    Subnets |-> NonEmptyFields(a.subnetIDs),
                    SecurityGroups |-> NonEmptyFields(a.securityGroupIDs),
                    AssignPublicIP |-> IF a.fargate THEN "ENABLED" ELSE "DISABLED",
                    PlatformVersion |-> a.platformVersion,
                    taskSizeCpu |-> a.taskSizeCpu,
                    taskSizeMemory |-> a.taskSizeMemory] >>,
          err |-> Nil]

(***************************************************************************)
(* RunTask.                                                                *)
(***************************************************************************)
\* taskDefinition.TaskDefinitionArn of the definition the caller looked up
TaskDefinitionArn == "arn:aws:ecs:task-definition/job:1"

\* mutant: the sizes are overridden as soon as one of them is given
TaskOverride_AnySize(task) ==
    LET sized == Len(task.taskSizeCpu) > 0 \/ Len(task.taskSizeMemory) > 0
    IN  [ContainerOverrides |->
             << [Command |-> task.Command, Name |-> task.Container] >>,
         Cpu |-> IF sized THEN <<task.taskSizeCpu>> ELSE <<>>,
         Memory |-> IF sized THEN <<task.taskSizeMemory>> ELSE <<>>]

\* mutant: the command override names the task definition, not the container
TaskOverride_DefinitionName(task) ==
    LET sized == Len(task.taskSizeCpu) > 0 /\ Len(task.taskSizeMemory) > 0
    IN  [ContainerOverrides |->
             << [Command |-> task.Command, Name |-> task.TaskDefinitionName] >>,
         Cpu |-> IF sized THEN <<task.taskSizeCpu>> ELSE <<>>,
         Memory |-> IF sized THEN <<task.taskSizeMemory>> ELSE <<>>]

\* the *ecstypes.TaskOverride RunTask builds; <<>> is a field left unset
TaskOverride(task) ==
    LET sized == Len(task.taskSizeCpu) > 0 /\ Len(task.taskSizeMemory) > 0
    IN  [ContainerOverrides |->
             << [Command |-> task.Command, Name |-> task.Container] >>,
         Cpu |-> IF sized THEN <<task.taskSizeCpu>> ELSE <<>>,
         Memory |-> IF sized THEN <<task.taskSizeMemory>> ELSE <<>>]

\* the network configuration of a task with subnets
NetworkConfiguration(task) ==
    [AwsvpcConfiguration |->
         [AssignPublicIp |-> task.AssignPublicIP,
          Subnets |-> task.Subnets,
          SecurityGroups |-> task.SecurityGroups]]

\* mutant: the platform version is set whether or not there are subnets
NetworkParams_PlatformAnyway(task) ==
    [NetworkConfiguration |->
         IF Len(task.Subnets) > 0 THEN <<NetworkConfiguration(task)>> ELSE <<>>,
     PlatformVersion |->
         IF Len(task.PlatformVersion) > 0
         THEN <<task.PlatformVersion>> ELSE <<>>]

\* the two fields RunTask sets for a task with subnets; <<>> is a field left
\* unset
NetworkParams(task) ==
    [NetworkConfiguration |->
         IF Len(task.Subnets) > 0 THEN <<NetworkConfiguration(task)>> ELSE <<>>,
     PlatformVersion |->
         IF Len(task.Subnets) > 0 /\ Len(task.PlatformVersion) > 0
         THEN <<task.PlatformVersion>> ELSE <<>>]

\* the *ecs.RunTaskInput RunTask builds
RunTaskInput(task, arn) ==
    [Cluster |-> task.Cluster,
     TaskDefinition |-> arn,
     Overrides |-> TaskOverride(task),
     LaunchType |-> task.LaunchType,
     NetworkConfiguration |-> NetworkParams(task).NetworkConfiguration,
     PlatformVersion |-> NetworkParams(task).PlatformVersion]

\* RunTask after awsECS.RunTask answered without error: it panics (nil
\* pointer dereference of Failures[0].Reason), or returns (*Task, error)
RunTaskResult(out) ==
    IF Len(out.Failures) > 0
    THEN IF out.Failures[1].Reason = <<>>
         THEN [panic |-> TRUE, task |-> <<>>, err |-> Nil]
         ELSE [panic |-> FALSE, task |-> <<>>,
               err |-> GoError(out.Failures[1].Reason[1], 0)]
    ELSE IF Len(out.Tasks) = 1
    THEN [panic |-> FALSE, task |-> <<out.Tasks[1]>>, err |-> Nil]
    ELSE [panic |-> FALSE, task |-> <<>>,
          err |-> GoError("Expected ecs.RunTask with Count=nil to return exactly 1 task; received",
                          Len(out.Tasks))]


(***************************************************************************)
(* Contexts.  WithTimeout is the context of the package doc,               *)
(* context.WithTimeout(context.Background(), t.Timeout): a deadline that   *)
(* lies d ahead, already passed when d is zero.  WithCancel is a caller's  *)
(* context that has no deadline.                                           *)
(***************************************************************************)
WithTimeout(d) ==
    [deadline |-> TRUE, err |-> IF d <= 0 THEN DeadlineExceeded ELSE Nil]
WithCancel == [deadline |-> FALSE, err |-> Nil]
NoContext == [deadline |-> FALSE, err |-> Nil]

NoCalls == [RunTask |-> 0, DescribeTasks |-> 0, StopTask |-> 0]
NoReturn == [task |-> <<>>, err |-> Pending]

\* the positions at which a function of the package is running or about to
Running ==
    {"RunTask", "RunTask.call", "RunTask.refused", "WaitTask", "select",
     "DescribeTasks"}

Init ==
    /\ loopVarPerIteration \in BOOLEAN
    /\ pc = "NewTask"
    /\ args = <<>>
    /\ t = <<>>
    /\ newErr = Nil
    /\ ctx = NoContext
    /\ calls = NoCalls
    /\ params = <<>>
    /\ runResp = <<>>
    /\ run = NoReturn
    /\ resp = <<>>
    /\ err = Nil
    /\ ret = Pending

(***************************************************************************)
(* The caller: NewTask, then a context.                                    *)
(***************************************************************************)
NewTask(a) ==
    /\ pc = "NewTask"
    /\ args' = <<a>>
    /\ \E cfgOk \in BOOLEAN :
          /\ t' = NewTaskResult(a, cfgOk).t
          /\ newErr' = NewTaskResult(a, cfgOk).err
          /\ pc' = IF NewTaskResult(a, cfgOk).err = Nil
                   THEN "context" ELSE "NewTask.failed"
    /\ UNCHANGED <<loopVarPerIteration, ctx, calls, params, runResp, run,
                   resp, err, ret>>

NewContext ==
    /\ pc = "context"
    /\ ctx' \in {WithTimeout(t[1].Timeout), WithCancel}
    /\ pc' = "RunTask"
    /\ UNCHANGED <<args, loopVarPerIteration, t, newErr, calls, params, runResp, run,
                   resp, err, ret>>

(***************************************************************************)
(* The context ends: its deadline passes, or the caller cancels it.        *)
(***************************************************************************)
DeadlineExpires ==
    /\ pc \in Running
    /\ ctx.deadline
    /\ ctx.err = Nil
    /\ ctx' = [ctx EXCEPT !.err = DeadlineExceeded]
    /\ UNCHANGED <<args, loopVarPerIteration, pc, t, newErr, calls, params, runResp,
                   run, resp, err, ret>>

Cancel ==
    /\ pc \in Running
    /\ ctx.err = Nil
    /\ ctx' = [ctx EXCEPT !.err = Canceled]
    /\ UNCHANGED <<args, loopVarPerIteration, pc, t, newErr, calls, params, runResp,
                   run, resp, err, ret>>

(***************************************************************************)
(* RunTask.                                                                *)
(***************************************************************************)
\* RunTask builds the input and calls awsECS.RunTask; the client sends no
\* request for a context that has ended already
RunTaskCall ==
    /\ pc = "RunTask"
    /\ params' = <<RunTaskInput(t[1], TaskDefinitionArn)>>
    /\ calls' = [calls EXCEPT !.RunTask = @ + 1]
    /\ pc' = IF ctx.err = Nil THEN "RunTask.call" ELSE "RunTask.refused"
    /\ UNCHANGED <<args, loopVarPerIteration, t, newErr, ctx, runResp, run, resp,
                   err, ret>>

\* awsECS.RunTask fails: RunTask returns its error
RunTaskFails ==
    /\ pc \in {"RunTask.call", "RunTask.refused"}
    /\ \E e \in ClientErrors("RunTask", ctx) :
          run' = [task |-> <<>>, err |-> e]
    /\ runResp' = <<>>
    /\ pc' = "RunTask.failed"
    /\ UNCHANGED <<args, loopVarPerIteration, t, newErr, ctx, calls, params, resp,
                   err, ret>>

\* awsECS.RunTask answers: RunTask looks at the failures and the tasks
RunTaskAnswers ==
    /\ pc = "RunTask.call"
    /\ \E out \in RunTaskOutputs :
          /\ runResp' = <<out>>
          /\ IF RunTaskResult(out).panic
             THEN /\ pc' = "RunTask.panic"
                  /\ run' = run
             ELSE /\ run' = [task |-> RunTaskResult(out).task,
                             err |-> RunTaskResult(out).err]
                  /\ pc' = IF RunTaskResult(out).err = Nil
                           THEN "WaitTask" ELSE "RunTask.failed"
    /\ UNCHANGED <<args, loopVarPerIteration, t, newErr, ctx, calls, params, resp,
                   err, ret>>


(***************************************************************************)
(* WaitTask and waitExitTasks.                                             *)
(***************************************************************************)
\* mutant: WaitTask calls DescribeTasks at once, before the first interval
WaitTask_DescribesFirst ==
    /\ pc = "WaitTask"
    /\ pc' = "DescribeTasks"
    /\ calls' = [calls EXCEPT !.DescribeTasks = @ + 1]
    /\ params' = <<>>
    /\ runResp' = <<>>
    /\ UNCHANGED <<args, loopVarPerIteration, t, newErr, ctx, run, resp, err, ret>>

\* WaitTask is entered with the task RunTask returned; RunTask's locals are gone
WaitTask ==
    /\ pc = "WaitTask"
    /\ pc' = "select"
    /\ params' = <<>>
    /\ runResp' = <<>>
    /\ UNCHANGED <<args, loopVarPerIteration, t, newErr, ctx, calls, run, resp, err,
                   ret>>

\* mutant: case <-ctx.Done() goes on with the loop instead of returning
SelectDone_Continue ==
    /\ pc = "select"
    /\ ctx.err # Nil
    /\ resp' = <<>>
    /\ err' = Nil
    /\ UNCHANGED <<args, loopVarPerIteration, pc, t, newErr, ctx, calls, params,
                   runResp, run, ret>>

\* mutant: case <-ctx.Done() stops the task before it returns
SelectDone_StopTask ==
    /\ pc = "select"
    /\ ctx.err # Nil
    /\ resp' = <<>>
    /\ err' = Nil
    /\ ret' = WaitTaskError(ctx.err)
    /\ calls' = [calls EXCEPT !.StopTask = @ + 1]
    /\ pc' = "WaitTask.returned"
    /\ UNCHANGED <<args, loopVarPerIteration, t, newErr, ctx, params, runResp, run>>

\* select: case <-ctx.Done(): return ctx.Err(), and WaitTask returns
SelectDone ==
    /\ pc = "select"
    /\ ctx.err # Nil
    /\ resp' = <<>>
    /\ err' = Nil
    /\ ret' = WaitTaskError(ctx.err)
    /\ pc' = "WaitTask.returned"
    /\ UNCHANGED <<args, loopVarPerIteration, t, newErr, ctx, calls, params, runResp,
                   run>>

\* mutant: the interval is slept through, whatever happens to the context
IntervalElapsed_Sleep ==
    /\ pc = "select"
    /\ calls.DescribeTasks < MaxPolls
    /\ resp' = <<>>
    /\ err' = Nil
    /\ calls' = [calls EXCEPT !.DescribeTasks = @ + 1]
    /\ pc' = "DescribeTasks"
    /\ UNCHANGED <<args, loopVarPerIteration, t, newErr, ctx, params, runResp, run,
                   ret>>

\* select: case <-time.After(5 * time.Second); then DescribeTasks is called
IntervalElapsed ==
    /\ pc = "select"
    /\ ctx.err = Nil
    /\ calls.DescribeTasks < MaxPolls
    /\ resp' = <<>>
    /\ err' = Nil
    /\ calls' = [calls EXCEPT !.DescribeTasks = @ + 1]
    /\ pc' = "DescribeTasks"
    /\ UNCHANGED <<args, loopVarPerIteration, t, newErr, ctx, params, runResp, run,
                   ret>>

\* mutant: a failed DescribeTasks is tried again after the next interval
DescribeTasksFails_Retry ==
    /\ pc = "DescribeTasks"
    /\ \E e \in ClientErrors("DescribeTasks", ctx) : err' = e
    /\ resp' = <<>>
    /\ pc' = "select"
    /\ UNCHANGED <<args, loopVarPerIteration, t, newErr, ctx, calls, params, runResp,
                   run, ret>>

\* awsECS.DescribeTasks fails: waitExitTasks returns its error
DescribeTasksFails ==
    /\ pc = "DescribeTasks"
    /\ \E e \in ClientErrors("DescribeTasks", ctx) :
          /\ err' = e
          /\ ret' = WaitTaskError(e)
    /\ resp' = <<>>
    /\ pc' = "WaitTask.returned"
    /\ UNCHANGED <<args, loopVarPerIteration, t, newErr, ctx, calls, params, runResp,
                   run>>

\* awsECS.DescribeTasks answers: the two loops decide between `continue
\* retry` and a return
DescribeTasksAnswers ==
    /\ pc = "DescribeTasks"
    /\ \E out \in DescribeTasksOutputs :
          /\ resp' = <<out>>
          /\ IF EvalTasks(out.Tasks).retry
             THEN /\ pc' = "select"
                  /\ ret' = ret
             ELSE /\ pc' = "WaitTask.returned"
                  /\ ret' = WaitTaskError(EvalTasks(out.Tasks).err)
    /\ err' = Nil
    /\ UNCHANGED <<args, loopVarPerIteration, t, newErr, ctx, calls, params, runResp,
                   run>>

(***************************************************************************)
(* Specifications.                                                         *)
(***************************************************************************)
Next ==
    \/ \E a \in LifeArgs : NewTask(a)
    \/ NewContext
    \/ DeadlineExpires
    \/ Cancel
    \/ RunTaskCall
    \/ RunTaskFails
    \/ RunTaskAnswers
    \/ WaitTask
    \/ SelectDone
    \/ IntervalElapsed
    \/ DescribeTasksFails
    \/ DescribeTasksAnswers

Spec == Init /\ [][Next]_vars

NextRun ==
    \/ \E a \in AllArgs : NewTask(a)
    \/ NewContext
    \/ DeadlineExpires
    \/ Cancel
    \/ RunTaskCall
    \/ RunTaskFails
    \/ RunTaskAnswers

SpecRun == Init /\ [][NextRun]_vars


\* Time passes, a goroutine that can run does, and a client call bound to
\* a context answers or fails.
FairSpec ==
    /\ Spec
    /\ WF_vars(SelectDone)
    /\ WF_vars(DeadlineExpires)
    /\ WF_vars(DescribeTasksFails \/ DescribeTasksAnswers)

(***************************************************************************)
(* Vocabulary of the properties.                                           *)
(***************************************************************************)
\* a DescribeTasks answer was evaluated in this iteration of the loop
Polled == resp # <<>>
\* the tasks of that answer
Snapshot == resp[1].Tasks
\* WaitTask returned from the select statement, not after a DescribeTasks
ReturnedFromSelect == pc = "WaitTask.returned" /\ resp = <<>> /\ err = Nil
\* the loop is still polling: `continue retry` took it back to the select
StillPolling == pc = "select" /\ ret = Pending

AllStopped(tasks) ==
    \A i \in 1..Len(tasks) : tasks[i].LastStatus = "STOPPED"
\* the containers of a task that carry the name of the target container
Named(task) ==
    {i \in 1..Len(task.Containers) : task.Containers[i].Name = t[1].Container}
\* every task has the target container, and its exit code is p (<<>>: absent)
TargetExitCodeIs(tasks, p) ==
    /\ Len(tasks) > 0
    /\ \A i \in 1..Len(tasks) :
          /\ Named(tasks[i]) # {}
          /\ \A j \in Named(tasks[i]) : tasks[i].Containers[j].ExitCode = p
\* in every task the target container is not found, or has no exit code
TargetInconclusive(tasks) ==
    /\ Len(tasks) > 0
    /\ \A i \in 1..Len(tasks) :
          \A j \in Named(tasks[i]) : tasks[i].Containers[j].ExitCode = <<>>


(***************************************************************************)
(* Properties.                                                             *)
(***************************************************************************)

\* C1: a poll whose snapshot has a task that is not stopped leaves the loop
\* polling; a poll whose snapshot is all stopped with the target container's
\* exit code 0 makes WaitTask return nil (Succeeded) at that tick, after
\* which no DescribeTasks call can be issued.
C1_SucceededAtFirstConclusiveTick ==
    Polled =>
        /\ ~AllStopped(Snapshot) => StillPolling
        /\ (AllStopped(Snapshot) /\ TargetExitCodeIs(Snapshot, <<0>>)) =>
              /\ pc = "WaitTask.returned"
              /\ ret = Nil
              /\ ~ENABLED IntervalElapsed

\* C2: a poll whose snapshot is all stopped with the target container's exit
\* code n # 0 makes WaitTask return the error "exit code: n" at that tick
\* (not nil, not "process timeout"), and polling stops.
C2_FailedCarriesExitCode ==
    \A n \in ExitCodes \ {0} :
        (Polled /\ AllStopped(Snapshot) /\ TargetExitCodeIs(Snapshot, <<n>>)) =>
            /\ pc = "WaitTask.returned"
            /\ ret = ExitCodeError(n)
            /\ ~ENABLED IntervalElapsed

\* C3: whenever a task of the polled snapshot is not stopped, the loop stays
\* polling: WaitTask has returned nothing, neither nil nor an exit code error,
\* whatever exit code the target container reports.
C3_NoResultBeforeStopped ==
    (Polled /\ ~AllStopped(Snapshot)) =>
        /\ StillPolling
        /\ ret # Nil
        /\ \A n \in ExitCodes : ret # ExitCodeError(n)

\* C3 witness: a task still running whose target container reports exit
\* code 0 was polled, and the loop went back to the select.
C3_Witness ==
    /\ Polled
    /\ Len(Snapshot) = 1
    /\ Snapshot[1].LastStatus = "RUNNING"
    /\ TargetExitCodeIs(Snapshot, <<0>>)
    /\ StillPolling

\* C4: a poll whose snapshot is all stopped but whose target container is
\* not found or has no exit code does not end WaitTask: the loop goes back
\* to polling.
C4_InconclusiveKeepsPolling ==
    (Polled /\ AllStopped(Snapshot) /\ TargetInconclusive(Snapshot)) =>
        StillPolling

\* C5: when DescribeTasks fails, WaitTask returns that error at once: no
\* retry, no further call; the loop goes on after a call only when the call
\* answered and its snapshot is not all stopped or lacks an exit code.
C5_PollErrorIsFatal ==
    /\ err # Nil =>
          /\ pc = "WaitTask.returned"
          /\ ret = err
          /\ ~ENABLED IntervalElapsed
    /\ (pc = "select" /\ calls.DescribeTasks > 0) =>
          /\ err = Nil
          /\ Polled
          /\ \/ ~AllStopped(Snapshot)
             \/ \E i \in 1..Len(Snapshot) :
                   \/ Named(Snapshot[i]) = {}
                   \/ \E j \in 1..Len(Snapshot[i].Containers) :
                         Snapshot[i].Containers[j].ExitCode = <<>>

\* C5 witness: a second DescribeTasks call failed and WaitTask returned.
C5_Witness ==
    /\ err = ServiceError("DescribeTasks")
    /\ calls.DescribeTasks = 2
    /\ pc = "WaitTask.returned"


\* C6: when the deadline has passed and WaitTask returns without a poll
\* having answered at that tick, it returns "process timeout", whether the
\* deadline passed during the interval wait or during a DescribeTasks call
\* (a call that failed for the service's own reasons set aside).
C6_DeadlineGivesTimedOut ==
    (/\ pc = "WaitTask.returned"
     /\ ctx.err = DeadlineExceeded
     /\ ~Polled
     /\ err # ServiceError("DescribeTasks")) =>
        ret = ProcessTimeout

\* C7 as claimed: when the caller cancels the context during the interval
\* wait, WaitTask returns "process timeout", as it does for a deadline.
C7_CancelGivesTimedOut ==
    (ReturnedFromSelect /\ ctx.err = Canceled) => ret = ProcessTimeout

\* C7 amended: WaitTask, returning from the select, returns "process timeout"
\* when the deadline passed and the error context.Canceled itself when the
\* caller cancelled: the two results differ.
C7_CancelGivesCanceled ==
    ReturnedFromSelect =>
        /\ ctx.err = DeadlineExceeded => ret = ProcessTimeout
        /\ ctx.err = Canceled => ret = Canceled /\ ret # ProcessTimeout

\* C7 witness: the caller cancelled between two polls and WaitTask returned.
C7_Witness ==
    /\ ReturnedFromSelect
    /\ ctx.err = Canceled
    /\ calls.DescribeTasks = 1

\* C8: a WaitTask entered with a context that carries a deadline returns,
\* whatever DescribeTasks answers; it returns one result, which never
\* changes, and has none before it returns.
C8_ReturnsOnce ==
    /\ (pc = "select" /\ ctx.deadline) ~> (pc = "WaitTask.returned")
    /\ [](pc = "WaitTask.returned" <=> ret # Pending)
    /\ [][pc = "WaitTask.returned" => (pc' = pc /\ ret' = ret)]_vars

\* C8 witness: the task never stopped in MaxPolls polls, and WaitTask
\* returned "process timeout".
C8_Witness ==
    /\ pc = "WaitTask.returned"
    /\ ctx.deadline
    /\ t[1].Timeout # 0
    /\ calls.DescribeTasks = MaxPolls
    /\ ret = ProcessTimeout

\* C9: in a run with Timeout = 0 whose context is the documented
\* context.WithTimeout(context.Background(), t.Timeout), the timeout is
\* ignored: no deadline ends the run, neither by failing RunTask's call nor
\* by making WaitTask return "process timeout".
C9_ZeroTimeoutIsNoTimeout ==
    (t # <<>> /\ pc # "context" /\ ctx.deadline /\ t[1].Timeout = 0) =>
        /\ run.err # WrappedCtxError("RunTask", DeadlineExceeded)
        /\ ret # ProcessTimeout

\* C10: RunTask returns a task if and only if awsECS.RunTask did not fail
\* and answered exactly one task and no failure; for every other answer it
\* returns an error and no task, and it returns the client's error as it is.
C10_HandleIffOneTaskNoFailure ==
    /\ runResp # <<>> =>
          IF Len(runResp[1].Tasks) = 1 /\ Len(runResp[1].Failures) = 0
          THEN pc = "WaitTask" /\ run.task = <<runResp[1].Tasks[1]>> /\ run.err = Nil
          ELSE pc = "RunTask.failed" /\ run.task = <<>>
               /\ run.err \notin {Nil, Pending}
    /\ (pc = "RunTask.failed" /\ runResp = <<>>) =>
          /\ run.task = <<>>
          /\ run.err \in ClientErrors("RunTask", ctx)

\* C11: when awsECS.RunTask answers with one or more failures, RunTask
\* returns an error whose text is the Reason of the first failure, whatever
\* the number of tasks in the answer; when it answers no failure and a number
\* of tasks other than one, the error carries that number.
C11_FirstFailureReasonFirst ==
    runResp # <<>> =>
        LET out == runResp[1]
        IN  /\ Len(out.Failures) > 0 =>
                  /\ pc = "RunTask.failed"
                  /\ out.Failures[1].Reason # <<>>
                  /\ run.err = GoError(out.Failures[1].Reason[1], 0)
            /\ (Len(out.Failures) = 0 /\ Len(out.Tasks) # 1) =>
                  /\ pc = "RunTask.failed"
                  /\ run.err.code = Len(out.Tasks)

\* C12: the request RunTask sends carries a Cpu and a Memory override if
\* and only if taskSizeCpu and taskSizeMemory are both set, and then it
\* carries these two values; with one of them unset it carries neither.
C12_SizeOverrideIffBoth ==
    params # <<>> =>
        LET o == params[1].Overrides
            both == args[1].taskSizeCpu # "" /\ args[1].taskSizeMemory # ""
        IN  /\ o.Cpu # <<>> <=> both
            /\ o.Memory # <<>> <=> both
            /\ both => /\ o.Cpu = <<args[1].taskSizeCpu>>
                       /\ o.Memory = <<args[1].taskSizeMemory>>

\* a request was sent for a task with a cpu size only: it has neither size
C12_Witness ==
    /\ params # <<>>
    /\ args[1].taskSizeCpu # "" /\ args[1].taskSizeMemory = ""
    /\ params[1].Overrides.Cpu = <<>> /\ params[1].Overrides.Memory = <<>>

\* C13: the request RunTask sends carries a network configuration if and
\* only if the task has subnets, and a platform version if and only if the
\* task has subnets and a platform version; a task without subnets gets
\* neither, whatever its launch type and platform version.
C13_NetworkIffSubnets ==
    params # <<>> =>
        LET subnets == Len(t[1].Subnets) > 0
        IN  /\ params[1].NetworkConfiguration # <<>> <=> subnets
            /\ params[1].PlatformVersion # <<>> <=>
                   (subnets /\ args[1].platformVersion # "")
            /\ params[1].PlatformVersion \in {<<>>, <<args[1].platformVersion>>}

\* a request was sent for a Fargate task with a platform version and no
\* subnet: it has no network configuration and no platform version
C13_Witness ==
    /\ params # <<>>
    /\ args[1].fargate /\ args[1].platformVersion # "" /\ t[1].Subnets = <<>>
    /\ params[1].NetworkConfiguration = <<>>
    /\ params[1].PlatformVersion = <<>>

\* the errors of NewTask's checks of its arguments
ValidationErrors ==
    {GoError(m, 0) : m \in {"Cluster name is required",
                            "Container name is required",
                            "Task definition is required",
                            "Command is required"}}

\* C14: NewTask called with an empty cluster, container, task definition or
\* command returns one of its four "... is required" errors and no Task, and
\* no call of the ECS client is made in that run.
C14_MissingArgFailsValidation ==
    (/\ args # <<>>
     /\ \/ args[1].cluster = "" \/ args[1].container = ""
        \/ args[1].taskDefinitionName = "" \/ args[1].command = "") =>
        /\ pc = "NewTask.failed"
        /\ t = <<>>
        /\ newErr \in ValidationErrors
        /\ calls = NoCalls

\* NewTask was called with an empty command and nothing else missing
C14_Witness ==
    /\ pc = "NewTask.failed"
    /\ args[1].cluster # "" /\ args[1].container # ""
    /\ args[1].taskDefinitionName # "" /\ args[1].command = ""
    /\ newErr = GoError("Command is required", 0)
    /\ calls = NoCalls

\* C15: the request RunTask sends has exactly one container override; its
\* name is the container NewTask was given and its command is the words of
\* the command line NewTask was given, in their order.
C15_OneCommandOverride ==
    params # <<>> =>
        LET overrides == params[1].Overrides.ContainerOverrides
        IN  /\ Len(overrides) = 1
            /\ overrides[1].Name = args[1].container
            /\ overrides[1].Command = Parse(args[1].command).commands

\* a request was sent for the container "sidecar" and a three-word command
C15_Witness ==
    /\ params # <<>>
    /\ args[1].container = "sidecar"
    /\ params[1].Overrides.ContainerOverrides =
           << [Command |-> <<"sh", "-c", "echo hi">>, Name |-> "sidecar"] >>

\* C16: the package never calls StopTask; it calls RunTask at most once, and
\* exactly once in a run that reaches WaitTask, where the only other client
\* calls are DescribeTasks calls, whatever WaitTask returns.
C16_NeverStopsTask ==
    /\ calls.StopTask = 0
    /\ calls.RunTask <= 1
    /\ pc \in {"WaitTask", "select", "DescribeTasks", "WaitTask.returned"} =>
          calls.RunTask = 1
    /\ calls.DescribeTasks > 0 => calls.RunTask = 1

\* WaitTask returned "process timeout" after one RunTask and one
\* DescribeTasks call, and no StopTask call
C16_Witness ==
    /\ pc = "WaitTask.returned"
    /\ ret = ProcessTimeout
    /\ calls = [RunTask |-> 1, DescribeTasks |-> 1, StopTask |-> 0]

\* C17: when the context ends while the loop waits in its select, the only
\* step the loop can take is the return of WaitTask with the context's
\* error: the interval cannot elapse any more, no DescribeTasks call is
\* made, and WaitTask does return.
C17_DoneEndsTheWait ==
    /\ []((pc = "select" /\ ctx.err # Nil) =>
             (ENABLED SelectDone /\ ~ENABLED IntervalElapsed))
    /\ [][(pc = "select" /\ ctx.err # Nil) =>
             /\ pc' = "WaitTask.returned"
             /\ ret' = WaitTaskError(ctx.err)
             /\ calls' = calls]_vars
    /\ ((pc = "select" /\ ctx.err # Nil) ~> pc = "WaitTask.returned")

\* the deadline passed during the third wait: WaitTask returned from the
\* select after two DescribeTasks calls
C17_Witness ==
    /\ ReturnedFromSelect
    /\ ctx.err = DeadlineExceeded
    /\ ret = ProcessTimeout
    /\ calls.DescribeTasks = 2

\* C18: a DescribeTasks call is made only out of the select, by an interval
\* that elapsed while the context had not ended, one call per interval;
\* entering WaitTask makes none, and a WaitTask whose context has ended
\* before its first interval elapsed makes none at all.
C18_DescribeOnlyAfterInterval ==
    /\ [][calls.DescribeTasks' # calls.DescribeTasks =>
             /\ pc = "select" /\ ctx.err = Nil
             /\ pc' = "DescribeTasks"
             /\ calls.DescribeTasks' = calls.DescribeTasks + 1]_vars
    /\ [][(pc' = "DescribeTasks" /\ pc # "DescribeTasks") => pc = "select"]_vars
    /\ [][(pc \in {"WaitTask", "select"} /\ ctx.err # Nil
              /\ calls.DescribeTasks = 0) =>
                 calls.DescribeTasks' = 0]_vars
    /\ [](Polled => calls.DescribeTasks > 0)

\* WaitTask returned for a cancelled context without any DescribeTasks call
C18_Witness ==
    /\ ReturnedFromSelect
    /\ ctx.err = Canceled
    /\ ret = Canceled
    /\ calls.DescribeTasks = 0

\* C19: for a stopped task that has containers of the target's name, the
\* exit code of the last of these decides: absent, the loop polls again;
\* 0, WaitTask returns nil; another code, WaitTask returns "exit code: "
\* with that code. No container of another name decides.
C19_LastNamedContainerDecides ==
    (/\ Polled
     /\ Len(Snapshot) = 1
     /\ AllStopped(Snapshot)
     /\ Named(Snapshot[1]) # {}) =>
        LET code == Snapshot[1].Containers[MaxOf(Named(Snapshot[1]))].ExitCode
        IN  IF code = <<>> THEN StillPolling
            ELSE /\ pc = "WaitTask.returned"
                 /\ ret = IF code = <<0>> THEN Nil ELSE ExitCodeError(code[1])

\* C20: WaitTask returns nil only after a DescribeTasks answer that has the
\* task, stopped, with the target container and an exit code 0 (which
\* container's exit code is read is the matter of C19); an answer without
\* any task does not make it return nil.
C20_SucceededNeedsStoppedTask ==
    (pc = "WaitTask.returned" /\ ret = Nil) =>
        /\ Polled
        /\ Len(Snapshot) > 0
        /\ AllStopped(Snapshot)
        /\ \A i \in 1..Len(Snapshot) :
              /\ Named(Snapshot[i]) # {}
              /\ \E j \in 1..Len(Snapshot[i].Containers) :
                    Snapshot[i].Containers[j].ExitCode = <<0>>

====
